---- MODULE Spec2Model ----
(***************************************************************************)
(* Model of main.py, the Telegram job poster: the dedup store kept in      *)
(* posted_jobs.txt, the date filter, the publisher with its text fallback  *)
(* and the batch loop of main().                                           *)
(*                                                                         *)
(* Strings that the code takes apart (identifiers, the dedup file) are     *)
(* sequences of one-character strings.  A timestamp is the record of the   *)
(* substrings the code looks at.  An HTTP exchange is the record of what   *)
(* requests returned: a status code, or a raised exception.                *)
(***************************************************************************)
EXTENDS Integers, Sequences, FiniteSets, TLC

(***************************************************************************)
(* Bounds of the model.                                                    *)
(***************************************************************************)
MaxFeed == 3
MaxRuns == 2
MaxTitleParts == 3

(***************************************************************************)
(* Program constants.                                                      *)
(***************************************************************************)
HTTP_OK == 200
PACING_SECONDS == 300

NL == "\n"
CR == "\r"

\* The characters str.strip() removes (str.isspace).  A character that has no
\* escape is written as its code point.
Whitespace ==
    {" ", NL, CR, "\t", "\f", "U+000B", "U+001C", "U+001D", "U+001E", "U+001F",
     "U+0085", "U+00A0", "U+1680", "U+2000", "U+2001", "U+2002", "U+2003",
     "U+2004", "U+2005", "U+2006", "U+2007", "U+2008", "U+2009", "U+200A",
     "U+2028", "U+2029", "U+202F", "U+205F", "U+3000"}

(***************************************************************************)
(* Python string helpers, on sequences of characters.                      *)
(***************************************************************************)
RECURSIVE lstrip(_)
lstrip(s) ==
    IF s = <<>> THEN <<>>
    ELSE IF Head(s) \in Whitespace THEN lstrip(Tail(s)) ELSE s

RECURSIVE rstrip(_)
rstrip(s) ==
    IF s = <<>> THEN <<>>
    ELSE IF s[Len(s)] \in Whitespace THEN rstrip(SubSeq(s, 1, Len(s) - 1)) ELSE s

\* str.strip()
strip(s) == lstrip(rstrip(s))

\* Iterating a file opened in text mode: the lines, each with its terminating
\* newline (the last one without, when the file does not end in one).  A line
\* ends at "\n", "\r" or "\r\n", and each of them is read as "\n".
RECURSIVE readlines(_)
readlines(text) ==
    IF text = <<>> THEN <<>>
    ELSE IF \E k \in 1..Len(text) : text[k] \in {NL, CR}
         THEN LET k == CHOOSE k \in 1..Len(text) :
                         /\ text[k] \in {NL, CR}
                         /\ \A j \in 1..(k - 1) : text[j] \notin {NL, CR}
                  end == IF text[k] = CR /\ k < Len(text) /\ text[k + 1] = NL
                         THEN k + 1 ELSE k
              IN  <<SubSeq(text, 1, k - 1) \o <<NL>>>>
                      \o readlines(SubSeq(text, end + 1, Len(text)))
         ELSE <<text>>

\* s.split('-')[-1]: what follows the last '-', the whole string without one.
last_segment(s) ==
    IF \E k \in 1..Len(s) : s[k] = "-"
    THEN LET k == CHOOSE k \in 1..Len(s) :
                    /\ s[k] = "-"
                    /\ \A j \in (k + 1)..Len(s) : s[j] # "-"
         IN  SubSeq(s, k + 1, Len(s))
    ELSE s

(***************************************************************************)
(* The dedup store: posted_jobs.txt.  fileExists is os.path.exists, file   *)
(* its text.                                                               *)
(***************************************************************************)
\* load_posted_jobs, when the file can be read.
load_posted_jobs(exists, text) ==
    IF ~exists THEN {}
    ELSE LET lines == readlines(text)
         IN  {strip(lines[k]) : k \in {j \in 1..Len(lines) : strip(lines[j]) # <<>>}}

\* save_posted_job, when the append succeeds: the new text of the file.
save_posted_job(text, job_id) == text \o job_id \o <<NL>>

(***************************************************************************)
(* Calendar arithmetic of datetime: days since 1970-01-01 and back.        *)
(***************************************************************************)
DaysFromCivil(ymd) ==
    LET y   == IF ymd[2] <= 2 THEN ymd[1] - 1 ELSE ymd[1]
        era == y \div 400
        yoe == y - era * 400
        mp  == IF ymd[2] > 2 THEN ymd[2] - 3 ELSE ymd[2] + 9
        doy == (153 * mp + 2) \div 5 + ymd[3] - 1
        doe == yoe * 365 + yoe \div 4 - yoe \div 100 + doy
    IN  era * 146097 + doe - 719468

CivilFromDays(days) ==
    LET z   == days + 719468
        era == z \div 146097
        doe == z - era * 146097
        yoe == (doe - doe \div 1460 + doe \div 36524 - doe \div 146096) \div 365
        doy == doe - (365 * yoe + yoe \div 4 - yoe \div 100)
        mp  == (5 * doy + 2) \div 153
        d   == doy - (153 * mp + 2) \div 5 + 1
        m   == IF mp < 10 THEN mp + 3 ELSE mp - 9
        y   == yoe + era * 400
    IN  <<IF m <= 2 THEN y + 1 ELSE y, m, d>>

MinutesPerDay == 24 * 60

\* The calendar date of an instant (minutes since the epoch, UTC) in the
\* timezone with the given offset in minutes.
DateIn(instant, offset) == CivilFromDays((instant + offset) \div MinutesPerDay)

DaysInMonth(y, m) ==
    IF m \in {4, 6, 9, 11} THEN 30
    ELSE IF m # 2 THEN 31
    ELSE IF (y % 4 = 0 /\ y % 100 # 0) \/ y % 400 = 0 THEN 29 ELSE 28

\* datetime.strptime(date_part, '%Y-%m-%d') succeeds.
ValidDate(ymd) ==
    /\ Len(ymd) = 3
    /\ ymd[1] \in 1..9999
    /\ ymd[2] \in 1..12
    /\ ymd[3] \in 1..DaysInMonth(ymd[1], ymd[2])

(***************************************************************************)
(* A timestamp string "<date><sep><hh:mm><offset>" is                      *)
(* [date |-> <<y, m, d>>, sep |-> "T", time |-> <<hh, mm>>, off |-> min];  *)
(* a date that does not parse is a tuple ValidDate rejects, and the empty  *)
(* string has sep = "".                                                    *)
(***************************************************************************)
\* date.today(): the date on the host's clock, in the host's timezone.
date_today(clock, tz) == DateIn(clock, tz)

\* is_today(date_str)
is_today(date_str, clock, tz) ==
    IF date_str.sep = "T"
    THEN IF ValidDate(date_str.date)
         THEN date_str.date = date_today(clock, tz)
         ELSE FALSE
    ELSE FALSE

(***************************************************************************)
(* extract_job_metadata.  A title is a sequence of characters; the content *)
(* is the sequence of its markup tokens, an img tag being <<"img", src>>   *)
(* and anything else <<"text", t>>.                                        *)
(***************************************************************************)
Upper == <<"A","B","C","D","E","F","G","H","I","J","K","L","M",
           "N","O","P","Q","R","S","T","U","V","W","X","Y","Z">>
Lowers == <<"a","b","c","d","e","f","g","h","i","j","k","l","m",
            "n","o","p","q","r","s","t","u","v","w","x","y","z">>

\* The characters outside ASCII that re.IGNORECASE matches with an ASCII
\* letter: dotted capital I, dotless i, long s, the Kelvin sign.
Folded == <<"U+0130", "U+0131", "U+017F", "U+212A">>
FoldedTo == <<"i", "i", "s", "k">>

\* re.IGNORECASE: the ASCII letter a character matches, the character itself
\* when it matches none.
Lower(c) ==
    IF \E k \in 1..Len(Upper) : Upper[k] = c
    THEN Lowers[CHOOSE k \in 1..Len(Upper) : Upper[k] = c]
    ELSE IF \E k \in 1..Len(Folded) : Folded[k] = c
         THEN FoldedTo[CHOOSE k \in 1..Len(Folded) : Folded[k] = c]
         ELSE c

\* text.startswith(word), ignoring case when fold is set
StartsWith(text, word, fold) ==
    /\ Len(word) <= Len(text)
    /\ \A k \in 1..Len(word) :
          IF fold THEN Lower(text[k]) = Lower(word[k]) ELSE text[k] = word[k]

\* str.find: the first index at which word occurs in text, 0 when it does not
Find(text, word, fold) ==
    LET hits == {k \in 1..(Len(text) + 1) :
                    StartsWith(SubSeq(text, k, Len(text)), word, fold)}
    IN  IF hits = {} THEN 0 ELSE CHOOSE k \in hits : \A j \in hits : k <= j

Separator == <<" ", "-", " ">>

\* title_text.split(" - ")
RECURSIVE split_separator(_)
split_separator(text) ==
    LET k == Find(text, Separator, FALSE)
    IN  IF k = 0 THEN <<text>>
        ELSE <<SubSeq(text, 1, k - 1)>>
                 \o split_separator(SubSeq(text, k + Len(Separator), Len(text)))

Keywords ==
    { <<"R","e","c","r","u","i","t","m","e","n","t">>,
      <<"H","i","r","i","n","g">>,
      <<"O","f","f"," ","C","a","m","p","u","s">>,
      <<"J","o","b">>,
      <<"C","a","r","e","e","r","s">> }

\* The first index at which one of the words starts, 0 when none does.
first_keyword(raw) ==
    LET hits == {Find(raw, w, TRUE) : w \in Keywords} \ {0}
    IN  IF hits = {} THEN 0 ELSE CHOOSE k \in hits : \A j \in hits : k <= j

\* re.sub(r'(Recruitment|Hiring|Off Campus|Job|Careers).*', '', raw, IGNORECASE):
\* every match is removed, and a match runs from a word to the end of its
\* line, since '.' does not match "\n".
RECURSIVE cut_keywords(_)
cut_keywords(raw) ==
    LET k == first_keyword(raw)
    IN  IF k = 0 THEN raw
        ELSE LET rest == SubSeq(raw, k, Len(raw))
                 n    == Find(rest, <<NL>>, FALSE)
             IN  IF n = 0 THEN SubSeq(raw, 1, k - 1)
                 ELSE SubSeq(raw, 1, k - 1) \o cut_keywords(SubSeq(rest, n, Len(rest)))

DefaultCompany == <<"C","o","m","p","a","n","y">>

company_name_of(title_text) ==
    IF Find(title_text, Separator, FALSE) # 0
    THEN LET parts == split_separator(title_text)
         IN  IF Len(parts) > 1
             THEN LET clean_company == strip(cut_keywords(parts[2]))
                  IN  IF clean_company # <<>> THEN clean_company ELSE DefaultCompany
             ELSE DefaultCompany
    ELSE DefaultCompany

\* re.search(r'<img[^>]+src="([^">]+)"', content_html): the src of the first
\* img tag that has one; "" stands for None.
logo_url_of(content_html) ==
    LET hits == {k \in 1..Len(content_html) :
                    content_html[k][1] = "img" /\ content_html[k][2] # ""}
    IN  IF hits = {} THEN ""
        ELSE content_html[CHOOSE k \in hits : \A j \in hits : k <= j][2]

extract_job_metadata(entry) ==
    <<company_name_of(entry.title), logo_url_of(entry.content)>>

(***************************************************************************)
(* HTTP.  A response is [raised |-> BOOLEAN, status |-> code]: requests    *)
(* either raised an exception or returned a status code.                   *)
(***************************************************************************)
Response(code) == [raised |-> FALSE, status |-> code]
Raised == [raised |-> TRUE, status |-> 0]
Responses == {Response(HTTP_OK), Response(400), Raised}

\* The value None of an optional path.
None == <<>>

\* The publisher without the return after a photo post that answered 200: the
\* text post follows every photo post.
post_to_telegram_no_return(bot_token, chat_id, caption, image_path, disk, openable, photo, text) ==
    LET photoCall == [endpoint |-> "sendPhoto", caption |-> caption]
        textCall  == [endpoint |-> "sendMessage", caption |-> caption]
        fallback(sent) ==
            IF text.raised
            THEN [calls |-> sent \o <<textCall>>, ret |-> FALSE]
            ELSE [calls |-> sent \o <<textCall>>, ret |-> (text.status = HTTP_OK)]
    IN  IF ~bot_token \/ ~chat_id
        THEN [calls |-> <<>>, ret |-> FALSE]
        ELSE IF image_path # None /\ image_path \in disk
             THEN IF ~openable
                  THEN [calls |-> <<>>, ret |-> FALSE]
                  ELSE IF photo.raised
                       THEN [calls |-> <<photoCall>>, ret |-> FALSE]
                       ELSE fallback(<<photoCall>>)
             ELSE fallback(<<>>)

\* The publisher without the os.path.exists test: opening a file that is not
\* there raises, and the handler returns False.
post_to_telegram_no_exists(bot_token, chat_id, caption, image_path, disk, openable, photo, text) ==
    LET photoCall == [endpoint |-> "sendPhoto", caption |-> caption]
        textCall  == [endpoint |-> "sendMessage", caption |-> caption]
        fallback(sent) ==
            IF text.raised
            THEN [calls |-> sent \o <<textCall>>, ret |-> FALSE]
            ELSE [calls |-> sent \o <<textCall>>, ret |-> (text.status = HTTP_OK)]
    IN  IF ~bot_token \/ ~chat_id
        THEN [calls |-> <<>>, ret |-> FALSE]
        ELSE IF image_path # None
             THEN IF image_path \notin disk \/ ~openable \/ photo.raised
                  THEN [calls |-> IF image_path \in disk /\ openable
                                  THEN <<photoCall>> ELSE <<>>,
                        ret |-> FALSE]
                  ELSE IF photo.status = HTTP_OK
                       THEN [calls |-> <<photoCall>>, ret |-> TRUE]
                       ELSE fallback(<<photoCall>>)
             ELSE fallback(<<>>)

\* post_to_telegram(caption, image_path): the requests it sends, in order, and
\* the value it returns.  disk is the set of paths that exist; openable tells
\* whether open(image_path, 'rb') succeeds on a path that exists (it raises on
\* a directory, or with no file descriptor left); photo and text are what the
\* two endpoints answer when they are called.
post_to_telegram(bot_token, chat_id, caption, image_path, disk, openable, photo, text) ==
    LET photoCall == [endpoint |-> "sendPhoto", caption |-> caption]
        textCall  == [endpoint |-> "sendMessage", caption |-> caption]
        fallback(sent) ==
            IF text.raised
            THEN [calls |-> sent \o <<textCall>>, ret |-> FALSE]
            ELSE [calls |-> sent \o <<textCall>>, ret |-> (text.status = HTTP_OK)]
    IN  IF ~bot_token \/ ~chat_id
        THEN [calls |-> <<>>, ret |-> FALSE]
        ELSE IF image_path # None /\ image_path \in disk
             THEN IF ~openable
                  THEN [calls |-> <<>>, ret |-> FALSE]
                  ELSE IF photo.raised
                       THEN [calls |-> <<photoCall>>, ret |-> FALSE]
                       ELSE IF photo.status = HTTP_OK
                            THEN [calls |-> <<photoCall>>, ret |-> TRUE]
                            ELSE fallback(<<photoCall>>)
             ELSE fallback(<<>>)

\* format_caption(job): the fields the template interpolates.
format_caption(job) ==
    [title |-> job.title, company |-> job.company_name, url |-> job.url,
     hashtag |-> SelectSeq(job.company_name, LAMBDA c : c # " ")]

\* The href of the first link of the entry with rel = 'alternate', "" without one.
alternate_link(links) ==
    LET hits == {k \in 1..Len(links) : links[k].rel = "alternate"}
    IN  IF hits = {} THEN ""
        ELSE links[CHOOSE k \in hits : \A j \in hits : k <= j].href

\* The loop of fetch_today_jobs over the entries of the feed.
RECURSIVE today_jobs_of(_, _, _)
today_jobs_of(entries, clock, tz) ==
    IF entries = <<>> THEN <<>>
    ELSE LET entry  == Head(entries)
             meta   == extract_job_metadata(entry)
             job    == [id           |-> last_segment(entry.id),
                        title        |-> entry.title,
                        company_name |-> meta[1],
                        company_logo |-> meta[2],
                        url          |-> alternate_link(entry.link),
                        published    |-> entry.published]
         IN  (IF is_today(entry.published, clock, tz) THEN <<job>> ELSE <<>>)
                 \o today_jobs_of(Tail(entries), clock, tz)

\* fetch_today_jobs without the test of the status code.
fetch_today_jobs_any_status(response, entries, clock, tz) ==
    IF response.raised THEN <<>>
    ELSE today_jobs_of(entries, clock, tz)

\* fetch_today_jobs(): response is what the feed endpoint answers, entries the
\* feed.entry list of its body.
fetch_today_jobs(response, entries, clock, tz) ==
    IF response.raised THEN <<>>
    ELSE IF response.status # HTTP_OK THEN <<>>
    ELSE today_jobs_of(entries, clock, tz)

\* create_job_image(job, image_path): how far the drawing got decides what it
\* did.  "early" is an exception before the logo is fetched, "late" one after
\* (at savefig), "ok" none.  The logo request and its decoding never fail the
\* rendering.
RenderOutcomes == {"ok", "early", "late"}

create_job_image(job, outcome) ==
    [ret        |-> (outcome = "ok"),
     requests   |-> IF job.company_logo # "" /\ outcome # "early"
                    THEN {"logo"} ELSE {}]

(***************************************************************************)
(* The world main() runs in.                                               *)
(***************************************************************************)
Stamp(ymd, hm, off) == [date |-> ymd, sep |-> "T", time |-> hm, off |-> off]

\* The host's clock (minutes since the epoch, UTC) and timezone offset during
\* the runs of main(): 2026-02-04 12:00 at +05:30.
HostTz == 5 * 60 + 30
HostClock == DaysFromCivil(<<2026, 2, 4>>) * MinutesPerDay + 12 * 60 - HostTz

\* The entries a feed is made of.
Entries ==
    { [id        |-> <<"p", "-", "7">>,
       title     |-> <<"D", "e", "v", " ", "-", " ", "A", "c", "m", "e", " ", "J", "o", "b">>,
       content   |-> << <<"text", "p">>, <<"img", "logo.png">> >>,
       published |-> Stamp(<<2026, 2, 4>>, <<9, 0>>, 330),
       link      |-> << [rel |-> "self", href |-> "s7"], [rel |-> "alternate", href |-> "u7"] >>],
      [id        |-> <<"p", "-", "7", " ">>,
       title     |-> <<"Q", "A">>,
       content   |-> << >>,
       published |-> Stamp(<<2026, 2, 4>>, <<9, 30>>, 330),
       link      |-> << >>],
      [id        |-> << >>,
       title     |-> <<"Q", "A">>,
       content   |-> << >>,
       published |-> Stamp(<<2026, 2, 4>>, <<10, 0>>, 330),
       link      |-> << >>],
      [id        |-> <<"q", "-", "8">>,
       title     |-> <<"O", "p", "s", " ", "-", " ", "H", "i", "r", "i", "n", "g">>,
       content   |-> << >>,
       published |-> Stamp(<<2026, 2, 4>>, <<0, 10>>, 0),
       link      |-> << [rel |-> "alternate", href |-> "u8"] >>],
      [id        |-> <<"q", "-", "9">>,
       title     |-> <<"Q", "A">>,
       content   |-> << >>,
       published |-> Stamp(<<2026, 2, 3>>, <<23, 55>>, -480),
       link      |-> << >>] }

Feeds == UNION {[1..n -> Entries] : n \in 0..MaxFeed}

JobIds == {last_segment(e.id) : e \in Entries}

(***************************************************************************)
(* State.                                                                  *)
(***************************************************************************)
VARIABLES
    bot_token,        \* TELEGRAM_BOT_TOKEN is set (and not empty)
    chat_id,          \* TELEGRAM_CHAT_ID is set (and not empty)
    feed,             \* the entries the feed endpoint serves
    fileExists,       \* posted_jobs.txt exists
    file,             \* the text of posted_jobs.txt
    disk,             \* the temporary image files that exist
    pc,               \* where main() is: "idle" before the first run, "end" after a run
    exit,             \* how the last run of main() ended
    posted_jobs,      \* main's local: the set load_posted_jobs returned
    today_jobs,       \* main's local: the list fetch_today_jobs returned
    idx,              \* position of the for loop in today_jobs
    first_post_done,  \* main's local
    success_count,    \* main's local
    image_path,       \* main's local: tmp.name of the current job
    run,              \* how many times main() was started
    slept,            \* seconds of time.sleep before the current job
    rendered,         \* what create_job_image returned for the job in hand
    calls,            \* the requests post_to_telegram sent for the job in hand
    attempts,         \* this run: the jobs given to post_to_telegram, in order
    saves,            \* this run: the positions save_posted_job was called for
    http,             \* this run: the kinds of HTTP request made
    fetched,          \* this run: what the feed endpoint answered
    fileAtStart,      \* the text of posted_jobs.txt when this run started
    posts,            \* all runs: successful publishes per job id
    failedBefore,     \* ids whose publish failed, and never succeeded, in the previous run
    crashes,          \* some run ended in an unhandled exception
    faulted,          \* all runs: some file operation has failed
    probe             \* a single call of one function: its arguments and its result

locals == <<posted_jobs, today_jobs, idx, first_post_done, success_count, image_path>>
env == <<bot_token, chat_id, feed, probe>>
world == <<env, fileExists, file, disk>>
observed == <<run, slept, rendered, calls, attempts, saves, http, fetched, fileAtStart,
              posts, failedBefore, crashes>>
vars == <<world, pc, exit, locals, observed, faulted>>

\* A file operation fails (a file that cannot be opened, created, written or
\* removed); any of them can, any number of times.  faulted remembers that
\* one has.
Fault == faulted' = TRUE
NoFault == faulted' = faulted

NoProbe == [fn |-> "none"]

\* No request was answered yet.
NoResponse == [raised |-> FALSE, status |-> 0]

\* The state before main() has ever run, for given credentials and feed.
Fresh(token, chat, entries) ==
    /\ bot_token = token
    /\ chat_id = chat
    /\ feed = entries
    /\ fileExists = FALSE
    /\ file = <<>>
    /\ disk = {}
    /\ faulted = FALSE
    /\ pc = "idle"
    /\ exit = "none"
    /\ posted_jobs = {}
    /\ today_jobs = <<>>
    /\ idx = 0
    /\ first_post_done = FALSE
    /\ success_count = 0
    /\ image_path = None
    /\ run = 0
    /\ slept = 0
    /\ rendered = FALSE
    /\ calls = <<>>
    /\ attempts = <<>>
    /\ saves = <<>>
    /\ http = {}
    /\ fetched = NoResponse
    /\ fileAtStart = <<>>
    /\ posts = [j \in JobIds |-> 0]
    /\ failedBefore = {}
    /\ crashes = FALSE

Init ==
    /\ \E token \in BOOLEAN, chat \in BOOLEAN, entries \in Feeds :
          Fresh(token, chat, entries)
    /\ probe = NoProbe

\* The ids of the attempts of a run that failed and were not made good by a
\* success of the same id in that run.
FailedIds(log) ==
    {log[k].id : k \in {j \in 1..Len(log) :
        /\ ~log[j].ok
        /\ \A m \in 1..Len(log) : log[m].id = log[j].id => ~log[m].ok}}

(***************************************************************************)
(* main().                                                                 *)
(***************************************************************************)
\* if __name__ == "__main__": main() -- the scheduler starts a run.
StartRun ==
    /\ pc \in {"idle", "end"}
    /\ run < MaxRuns
    /\ run' = run + 1
    /\ pc' = "startup"
    /\ exit' = "none"
    /\ posted_jobs' = {}
    /\ today_jobs' = <<>>
    /\ idx' = 0
    /\ first_post_done' = FALSE
    /\ success_count' = 0
    /\ image_path' = None
    /\ slept' = 0
    /\ rendered' = FALSE
    /\ calls' = <<>>
    /\ attempts' = <<>>
    /\ saves' = <<>>
    /\ http' = {}
    /\ fetched' = NoResponse
    /\ fileAtStart' = file
    /\ failedBefore' = FailedIds(attempts)
    /\ UNCHANGED <<world, posts, crashes, faulted>>

\* if not TELEGRAM_BOT_TOKEN: return
Startup ==
    /\ pc = "startup"
    /\ IF ~bot_token
       THEN pc' = "end" /\ exit' = "missing_token"
       ELSE pc' = "load" /\ exit' = exit
    /\ UNCHANGED <<world, locals, observed, faulted>>

\* posted_jobs = load_posted_jobs(); opening a file that exists can fail, and
\* nothing catches the exception.
Load ==
    /\ pc = "load"
    /\ \E readable \in BOOLEAN :
          IF fileExists /\ ~readable
          THEN /\ Fault
               /\ pc' = "end"
               /\ exit' = "exception"
               /\ crashes' = TRUE
               /\ UNCHANGED posted_jobs
          ELSE /\ NoFault
               /\ pc' = "fetch"
               /\ posted_jobs' = load_posted_jobs(fileExists, file)
               /\ UNCHANGED <<exit, crashes>>
    /\ UNCHANGED <<world, today_jobs, idx, first_post_done, success_count, image_path,
                   run, slept, rendered, calls, attempts, saves, http, fetched,
                   fileAtStart, posts, failedBefore>>

\* today_jobs = fetch_today_jobs(); if not today_jobs: return
Fetch ==
    /\ pc = "fetch"
    /\ \E response \in Responses :
          /\ today_jobs' = fetch_today_jobs(response, feed, HostClock, HostTz)
          /\ http' = http \cup {"feed"}
          /\ fetched' = response
          /\ IF today_jobs' = <<>>
             THEN pc' = "end" /\ exit' = "no_jobs" /\ idx' = idx
             ELSE pc' = "loop" /\ exit' = exit /\ idx' = 1
    /\ UNCHANGED <<faulted, world, posted_jobs, first_post_done, success_count, image_path,
                   run, slept, rendered, calls, attempts, saves, fileAtStart,
                   posts, failedBefore, crashes>>

\* A skip that counts as a post: the next attempted job would wait.
LoopSkipCounted ==
    /\ pc = "loop"
    /\ idx <= Len(today_jobs)
    /\ today_jobs[idx].id \in posted_jobs
    /\ idx' = idx + 1
    /\ first_post_done' = TRUE
    /\ UNCHANGED <<faulted, world, pc, exit, posted_jobs, today_jobs,
                   success_count, image_path, observed>>

\* for job in today_jobs: if job_id in posted_jobs: continue
LoopSkip ==
    /\ pc = "loop"
    /\ idx <= Len(today_jobs)
    /\ today_jobs[idx].id \in posted_jobs
    /\ idx' = idx + 1
    /\ UNCHANGED <<faulted, world, pc, exit, posted_jobs, today_jobs, first_post_done,
                   success_count, image_path, observed>>

\* tempfile.NamedTemporaryFile(suffix='.png', delete=False).name: a name that
\* no file has, here the first free one.
tmp_name(files) ==
    <<"tmp", CHOOSE n \in 1..(Cardinality(files) + 1) :
                /\ <<"tmp", n>> \notin files
                /\ \A m \in 1..(n - 1) : <<"tmp", m>> \in files>>

\* The loop waiting before every attempt but the first of the run.
LoopBeginPaced ==
    /\ pc = "loop"
    /\ idx <= Len(today_jobs)
    /\ today_jobs[idx].id \notin posted_jobs
    /\ slept' = IF attempts # <<>> THEN PACING_SECONDS ELSE 0
    /\ \E created \in BOOLEAN :
          IF created
          THEN /\ NoFault
               /\ image_path' = tmp_name(disk)
               /\ disk' = disk \cup {image_path'}
               /\ rendered' = FALSE
               /\ calls' = <<>>
               /\ pc' = "render"
               /\ UNCHANGED <<exit, crashes>>
          ELSE /\ Fault
               /\ pc' = "end"
               /\ exit' = "exception"
               /\ crashes' = TRUE
               /\ UNCHANGED <<image_path, disk, rendered, calls>>
    /\ UNCHANGED <<env, fileExists, file, posted_jobs,
                   today_jobs, idx, first_post_done, success_count, run, attempts,
                   saves, http, fetched, fileAtStart, posts, failedBefore>>

\* if first_post_done: time.sleep(300); the title is printed and the
\* temporary file is created.  Neither is inside a try: when the print or
\* NamedTemporaryFile raises, the exception leaves main().
LoopBegin ==
    /\ pc = "loop"
    /\ idx <= Len(today_jobs)
    /\ today_jobs[idx].id \notin posted_jobs
    /\ slept' = IF first_post_done THEN PACING_SECONDS ELSE 0
    /\ \E created \in BOOLEAN :
          IF created
          THEN /\ NoFault
               /\ image_path' = tmp_name(disk)
               /\ disk' = disk \cup {image_path'}
               /\ rendered' = FALSE
               /\ calls' = <<>>
               /\ pc' = "render"
               /\ UNCHANGED <<exit, crashes>>
          ELSE /\ Fault
               /\ pc' = "end"
               /\ exit' = "exception"
               /\ crashes' = TRUE
               /\ UNCHANGED <<image_path, disk, rendered, calls>>
    /\ UNCHANGED <<env, fileExists, file, posted_jobs,
                   today_jobs, idx, first_post_done, success_count, run, attempts,
                   saves, http, fetched, fileAtStart, posts, failedBefore>>

\* create_job_image(job, image_path); its result is not looked at
Render ==
    /\ pc = "render"
    /\ \E outcome \in RenderOutcomes :
          LET r == create_job_image(today_jobs[idx], outcome)
          IN  /\ rendered' = r.ret
              /\ http' = http \cup r.requests
    /\ pc' = "publish"
    /\ UNCHANGED <<faulted, world, exit, locals, run, slept, calls, attempts, saves, fetched,
                   fileAtStart, posts, failedBefore, crashes>>

\* if post_to_telegram(caption, image_path):
Publish ==
    /\ pc = "publish"
    /\ \E openable \in BOOLEAN, photo \in Responses, text \in Responses :
          LET job == today_jobs[idx]
              r   == post_to_telegram(bot_token, chat_id, format_caption(job),
                                      image_path, disk, openable, photo, text)
          IN  /\ IF openable THEN NoFault
                 ELSE bot_token /\ chat_id /\ image_path \in disk /\ Fault
              /\ calls' = r.calls
              /\ http' = http \cup {r.calls[k].endpoint : k \in 1..Len(r.calls)}
              /\ attempts' = Append(attempts,
                     [job |-> idx, id |-> job.id, slept |-> slept, ok |-> r.ret])
              /\ posts' = IF r.ret THEN [posts EXCEPT ![job.id] = @ + 1] ELSE posts
              /\ pc' = IF r.ret THEN "record" ELSE "unlink"
    /\ UNCHANGED <<world, exit, locals, run, slept, rendered, saves, fetched, fileAtStart,
                   failedBefore, crashes>>

\* The record step that also adds the id to the set in memory.
RecordRemembering ==
    /\ pc = "record"
    /\ saves' = Append(saves, idx)
    /\ \E opened \in BOOLEAN, written \in 0..(Len(today_jobs[idx].id) + 1) :
          IF opened /\ written = Len(today_jobs[idx].id) + 1
          THEN /\ file' = save_posted_job(file, today_jobs[idx].id)
               /\ fileExists' = TRUE
               /\ posted_jobs' = posted_jobs \cup {today_jobs[idx].id}
               /\ success_count' = success_count + 1
               /\ first_post_done' = TRUE
               /\ pc' = "unlink"
               /\ NoFault
               /\ UNCHANGED <<exit, crashes>>
          ELSE /\ Fault
               /\ file' = IF opened
                          THEN SubSeq(save_posted_job(file, today_jobs[idx].id),
                                      1, Len(file) + written)
                          ELSE file
               /\ fileExists' = (fileExists \/ opened)
               /\ pc' = "end"
               /\ exit' = "exception"
               /\ crashes' = TRUE
               /\ UNCHANGED <<success_count, first_post_done, posted_jobs>>
    /\ UNCHANGED <<env, disk, today_jobs, idx,
                   image_path, run, slept, rendered, calls, attempts, http, fetched,
                   fileAtStart, posts, failedBefore>>

\* save_posted_job(job_id); success_count += 1; first_post_done = True.
\* The append can fail, and nothing catches the exception: open() raises
\* and the file is as it was, or the write fails after open() has created the
\* file, with none or a part of the line written.
Record ==
    /\ pc = "record"
    /\ saves' = Append(saves, idx)
    /\ \E opened \in BOOLEAN, written \in 0..(Len(today_jobs[idx].id) + 1) :
          IF opened /\ written = Len(today_jobs[idx].id) + 1
          THEN /\ file' = save_posted_job(file, today_jobs[idx].id)
               /\ fileExists' = TRUE
               /\ success_count' = success_count + 1
               /\ first_post_done' = TRUE
               /\ pc' = "unlink"
               /\ NoFault
               /\ UNCHANGED <<exit, crashes>>
          ELSE /\ Fault
               /\ file' = IF opened
                          THEN SubSeq(save_posted_job(file, today_jobs[idx].id),
                                      1, Len(file) + written)
                          ELSE file
               /\ fileExists' = (fileExists \/ opened)
               /\ pc' = "end"
               /\ exit' = "exception"
               /\ crashes' = TRUE
               /\ UNCHANGED <<success_count, first_post_done>>
    /\ UNCHANGED <<env, disk, posted_jobs, today_jobs, idx,
                   image_path, run, slept, rendered, calls, attempts, http, fetched,
                   fileAtStart, posts, failedBefore>>

\* try: os.unlink(image_path) except: pass -- and the loop moves on, with
\* the file still there when os.unlink raised.  The job is no longer in hand.
Unlink ==
    /\ pc = "unlink"
    /\ \E removed \in BOOLEAN :
          IF removed THEN NoFault /\ disk' = disk \ {image_path}
          ELSE Fault /\ UNCHANGED disk
    /\ idx' = idx + 1
    /\ pc' = "loop"
    /\ rendered' = FALSE
    /\ calls' = <<>>
    /\ UNCHANGED <<env, fileExists, file, exit, posted_jobs,
                   today_jobs, first_post_done, success_count, image_path,
                   run, slept, attempts, saves, http, fetched, fileAtStart,
                   posts, failedBefore, crashes>>

\* the loop is over: print the count and return
Finish ==
    /\ pc = "loop"
    /\ idx > Len(today_jobs)
    /\ pc' = "end"
    /\ exit' = "completed"
    /\ UNCHANGED <<world, locals, observed, faulted>>

Next ==
    \/ StartRun
    \/ Startup
    \/ Load
    \/ Fetch
    \/ LoopSkip
    \/ LoopBegin
    \/ Render
    \/ Publish
    \/ Record
    \/ Unlink
    \/ Finish

Spec == Init /\ [][Next]_vars

(***************************************************************************)
(* post_to_telegram on its own: one call with any credentials, any path,   *)
(* the file there or not, and any answers of the two endpoints.            *)
(***************************************************************************)
ProbePath == tmp_name({})
Captions == {format_caption(j) : j \in
               {today_jobs_of(<<e>>, HostClock, HostTz)[1] :
                   e \in {x \in Entries : is_today(x.published, HostClock, HostTz)}}}

PublishInputs ==
    [fn : {"post_to_telegram"}, done : {FALSE},
     bot_token : BOOLEAN, chat_id : BOOLEAN, caption : Captions,
     image_path : {None, ProbePath}, disk : {{}, {ProbePath}},
     openable : BOOLEAN, photo : Responses, text : Responses,
     calls : {<<>>}, ret : {FALSE}]

InitPublish ==
    /\ Fresh(TRUE, TRUE, <<>>)
    /\ probe \in PublishInputs

CallPublish ==
    /\ probe.fn = "post_to_telegram"
    /\ ~probe.done
    /\ LET r == post_to_telegram(probe.bot_token, probe.chat_id, probe.caption,
                                 probe.image_path, probe.disk, probe.openable,
                                 probe.photo, probe.text)
       IN  probe' = [probe EXCEPT !.done = TRUE, !.calls = r.calls, !.ret = r.ret]
    /\ UNCHANGED <<faulted, bot_token, chat_id, feed, fileExists, file, disk, pc, exit,
                   locals, observed>>

NextPublish == CallPublish

SpecPublish == InitPublish /\ [][NextPublish]_vars

(***************************************************************************)
(* is_today on its own: one call with any timestamp, on a host with any    *)
(* clock and timezone.                                                     *)
(***************************************************************************)
ProbeDates == {<<2026, 2, 3>>, <<2026, 2, 4>>, <<2026, 2, 5>>, <<2026, 2, 30>>, <<>>}
ProbeTimes == {<<0, 10>>, <<12, 0>>, <<23, 55>>}
ProbeOffsets == {-8 * 60, 0, 5 * 60 + 30}
ProbeClocks ==
    {DaysFromCivil(<<2026, 2, 4>>) * MinutesPerDay + m : m \in {5, 12 * 60, 23 * 60 + 50}}

TimeInputs ==
    [fn : {"is_today"}, done : {FALSE},
     date_str : [date : ProbeDates, sep : {"T", " "}, time : ProbeTimes, off : ProbeOffsets],
     clock : ProbeClocks, tz : ProbeOffsets, ret : {FALSE}]

InitTime ==
    /\ Fresh(TRUE, TRUE, <<>>)
    /\ probe \in TimeInputs

CallIsToday ==
    /\ probe.fn = "is_today"
    /\ ~probe.done
    /\ probe' = [probe EXCEPT !.done = TRUE,
                              !.ret = is_today(probe.date_str, probe.clock, probe.tz)]
    /\ UNCHANGED <<faulted, bot_token, chat_id, feed, fileExists, file, disk, pc, exit,
                   locals, observed>>

NextTime == CallIsToday

SpecTime == InitTime /\ [][NextTime]_vars

(***************************************************************************)
(* extract_job_metadata on its own: one call with any title put together   *)
(* from a few fragments, and a content with or without an img tag.         *)
(***************************************************************************)
TitleParts ==
    { <<"A", " ", "-", " ">>, <<" ", "-", " ">>, <<"j", "O", "B">>, <<"B">>,
      <<" ">>, <<"-">>, <<"\t">>, <<NL>> }

RECURSIVE TitlesOf(_)
TitlesOf(n) ==
    IF n = 0 THEN {<<>>}
    ELSE TitlesOf(n - 1) \cup {t \o part : t \in TitlesOf(n - 1), part \in TitleParts}

ProbeContents == { <<>>, << <<"text", "p">> >>, << <<"img", "">>, <<"img", "logo.png">> >> }

ExtractInputs ==
    [fn : {"extract_job_metadata"}, done : {FALSE},
     title : TitlesOf(MaxTitleParts), content : ProbeContents,
     company_name : {<<>>}, logo_url : {""}]

InitExtract ==
    /\ Fresh(TRUE, TRUE, <<>>)
    /\ probe \in ExtractInputs

CallExtract ==
    /\ probe.fn = "extract_job_metadata"
    /\ ~probe.done
    /\ LET r == extract_job_metadata([title |-> probe.title, content |-> probe.content])
       IN  probe' = [probe EXCEPT !.done = TRUE, !.company_name = r[1], !.logo_url = r[2]]
    /\ UNCHANGED <<faulted, bot_token, chat_id, feed, fileExists, file, disk, pc, exit,
                   locals, observed>>

NextExtract == CallExtract

SpecExtract == InitExtract /\ [][NextExtract]_vars

(***************************************************************************)
(* Claims.                                                                 *)
(***************************************************************************)
Creds == bot_token /\ chat_id

\* The positions of the jobs of a log, in order.
JobsOf(log) == [k \in 1..Len(log) |-> log[k].job]

\* The successful attempts of this run.
Succeeded == SelectSeq(attempts, LAMBDA a : a.ok)

\* The lines appended to posted_jobs.txt since this run started.
AppendedLines ==
    LET lines == readlines(SubSeq(file, Len(fileAtStart) + 1, Len(file)))
    IN  {lines[k] : k \in 1..Len(lines)}

\* C1: over two consecutive runs on the same feed, on the same day, with no
\* crash and no file operation failing, every job id is published
\* successfully at most once.
C1_DedupIdempotence ==
    (run <= 2 /\ ~crashes /\ ~faulted) => \A j \in JobIds : posts[j] <= 1

\* C2: save_posted_job is called for a job exactly when, and once for each
\* time, post_to_telegram has just returned success for it; an id whose
\* publish failed in a run is not appended to the store in that run, and it
\* is attempted in the next run whose job list still has it (when no file
\* operation has failed).
C2_RecordAfterPublish ==
    /\ saves = IF pc = "record"
               THEN SubSeq(JobsOf(Succeeded), 1, Len(Succeeded) - 1)
               ELSE JobsOf(Succeeded)
    /\ \A j \in FailedIds(attempts) : (j \o <<NL>>) \notin AppendedLines
    /\ \A n \in 1..Len(today_jobs) :
          (today_jobs[n].id \in failedBefore /\ n < idx /\ ~faulted) =>
              \E k \in 1..Len(attempts) : attempts[k].id = today_jobs[n].id

\* C3: every attempted job of a run but the first is preceded by the pacing
\* delay, the first by none: N attempts, N - 1 delays.  Stated for the runs
\* with both credentials in which no file operation has failed.
C3_Pacing ==
    (Creds /\ ~faulted) =>
        \A k \in 1..Len(attempts) :
            attempts[k].slept = IF k = 1 THEN 0 ELSE PACING_SECONDS

\* C4: with both credentials, when the photo post fails (no path, no file, or
\* a photo request that raised or was answered with another status than 200)
\* the caption is then posted to the text endpoint and the result is whether
\* that answered 200.
C4_PublishFallback ==
    (/\ probe.fn = "post_to_telegram"
     /\ probe.done
     /\ probe.bot_token /\ probe.chat_id
     /\ \/ probe.image_path = None
        \/ probe.image_path \notin probe.disk
        \/ probe.openable /\ probe.photo.raised
        \/ probe.openable /\ probe.photo.status # HTTP_OK)
    => /\ probe.calls # <<>>
       /\ probe.calls[Len(probe.calls)] =
              [endpoint |-> "sendMessage", caption |-> probe.caption]
       /\ probe.ret = (~probe.text.raised /\ probe.text.status = HTTP_OK)

\* C5: with the bot token or the chat id unset, main() ends at the startup
\* check, having made no HTTP request and left posted_jobs.txt as it was.
C5_CredentialsCheck ==
    (pc = "end" /\ ~Creds) =>
        /\ exit = "missing_token"
        /\ http = {}
        /\ file = fileAtStart

\* C6: when create_job_image failed for a job, the publish step still runs,
\* calls no photo endpoint and sends the caption through the text endpoint.
\* Stated for the runs with both credentials in which no file operation has
\* failed.
C6_RenderFailureTextOnly ==
    (pc \in {"record", "unlink"} /\ ~rendered /\ Creds /\ ~faulted) =>
        calls = <<[endpoint |-> "sendMessage",
                   caption |-> format_caption(today_jobs[idx])]>>

\* C7: when the loop moves to the next job, and when the run has ended, no
\* temporary image file exists, whatever the rendering, the publishing and
\* the write to the store did.  Stated for the states in which no file
\* operation has failed, and for the runs that called save_posted_job and
\* ended in an exception.
C7_ArtifactRelease ==
    (pc \in {"loop", "end"} /\ (faulted => saves # <<>> /\ exit = "exception"))
        => disk = {}

\* The instant a timestamp denotes, in minutes since the epoch, UTC.
InstantOf(date_str) ==
    DaysFromCivil(date_str.date) * MinutesPerDay
        + date_str.time[1] * 60 + date_str.time[2] - date_str.off

ReferenceTz == 5 * 60 + 30

\* C8: for a well-formed timestamp, is_today is true exactly when the date of
\* its instant in UTC+5:30 is the date of now in UTC+5:30.
C8_TimezoneCorrectness ==
    (/\ probe.fn = "is_today"
     /\ probe.done
     /\ probe.date_str.sep = "T"
     /\ ValidDate(probe.date_str.date))
    => probe.ret = (DateIn(InstantOf(probe.date_str), ReferenceTz)
                        = DateIn(probe.clock, ReferenceTz))

\* The positions of today's jobs whose id the loaded set does not have.
RECURSIVE Unseen(_)
Unseen(n) ==
    IF n = 0 THEN <<>>
    ELSE Unseen(n - 1) \o
            (IF today_jobs[n].id \in posted_jobs THEN <<>> ELSE <<n>>)

\* C9: a run that passed the startup check attempts exactly the jobs of
\* today's list whose id was not in the store when it was loaded, each once
\* and in feed order.
C9_ExactAttemptSet ==
    (pc = "end" /\ exit # "missing_token") =>
        JobsOf(attempts) = Unseen(Len(today_jobs))

\* A job whose id is in the loaded set is at the head of the loop.
AtSkip ==
    /\ pc = "loop"
    /\ idx <= Len(today_jobs)
    /\ today_jobs[idx].id \in posted_jobs

\* C10: a job whose id is in the loaded set is passed over with no delay, no
\* temporary file, no rendering, no request and no write to the store, and
\* without touching first_post_done; no attempt and no save of a run is for
\* such a job, and an attempted job has waited only if an attempt before it
\* succeeded, however many jobs were passed over before it.
C10_SkipIsInert ==
    /\ [](/\ \A k \in 1..Len(attempts) :
                /\ today_jobs[attempts[k].job].id \notin posted_jobs
                /\ attempts[k].slept # 0 => \E m \in 1..(k - 1) : attempts[m].ok
          /\ \A k \in 1..Len(saves) : today_jobs[saves[k]].id \notin posted_jobs
          /\ pc \in {"render", "publish", "record", "unlink"} =>
                today_jobs[idx].id \notin posted_jobs)
    /\ [][AtSkip =>
            /\ pc' = "loop" /\ idx' = idx + 1
            /\ UNCHANGED <<slept, disk, rendered, calls, http, attempts, saves,
                           file, fileExists, first_post_done, success_count, posts>>]_vars

\* A later job is being attempted after an earlier one was passed over.
C10_Witness ==
    /\ pc = "publish"
    /\ \E k \in 1..(idx - 1) : today_jobs[k].id \in posted_jobs

\* The feed endpoint was asked in this run and did not answer 200.
FeedFailed == "feed" \in http /\ (fetched.raised \/ fetched.status # HTTP_OK)

\* C11: when the feed request raises or answers another status than 200, the
\* job list is empty and main() returns at once: nothing is rendered, no
\* publish is attempted, no delay is taken, no other request is made and
\* posted_jobs.txt is as it was.
C11_FeedFailureEmptyRun ==
    FeedFailed =>
        /\ today_jobs = <<>>
        /\ pc = "end" /\ exit = "no_jobs"
        /\ attempts = <<>> /\ saves = <<>> /\ calls = <<>>
        /\ slept = 0 /\ ~rendered
        /\ http = {"feed"}
        /\ image_path = None
        /\ file = fileAtStart

\* The feed, which has a job of today, answered 400 and the run is over.
C11_Witness ==
    /\ FeedFailed
    /\ ~fetched.raised
    /\ pc = "end"
    /\ today_jobs_of(feed, HostClock, HostTz) # <<>>

\* C12: with both credentials, a path whose file exists and is opened, and a
\* photo post that answers 200, post_to_telegram returns true and sends the
\* photo post only.
C12_PhotoSuccessShortCircuits ==
    (/\ probe.fn = "post_to_telegram"
     /\ probe.done
     /\ probe.bot_token /\ probe.chat_id
     /\ probe.image_path # None
     /\ probe.image_path \in probe.disk
     /\ probe.openable
     /\ ~probe.photo.raised
     /\ probe.photo.status = HTTP_OK)
    => /\ probe.ret
       /\ probe.calls = <<[endpoint |-> "sendPhoto", caption |-> probe.caption]>>

\* A photo post answered 200 while the text endpoint would have answered too.
C12_Witness ==
    /\ probe.fn = "post_to_telegram"
    /\ probe.done
    /\ probe.ret
    /\ probe.image_path \in probe.disk
    /\ probe.openable
    /\ probe.photo = Response(HTTP_OK)
    /\ probe.text = Response(HTTP_OK)

\* C13: with both credentials and no path, or a path whose file does not
\* exist, post_to_telegram sends the text post only and returns whether it
\* answered 200.
C13_MissingArtifactTextOnly ==
    (/\ probe.fn = "post_to_telegram"
     /\ probe.done
     /\ probe.bot_token /\ probe.chat_id
     /\ (probe.image_path = None \/ probe.image_path \notin probe.disk))
    => /\ probe.calls = <<[endpoint |-> "sendMessage", caption |-> probe.caption]>>
       /\ probe.ret = (~probe.text.raised /\ probe.text.status = HTTP_OK)

\* A path was given, its file does not exist, and the text post answered 200.
C13_Witness ==
    /\ probe.fn = "post_to_telegram"
    /\ probe.done
    /\ probe.ret
    /\ probe.image_path = ProbePath
    /\ probe.disk = {}
    /\ Len(probe.calls) = 1

\* C14: load_posted_jobs gives the empty set for a store that is missing and
\* for one that cannot be read, and a run with the bot token set is never
\* over before it has asked for the feed.
C14_LoadNeverFails ==
    /\ (pc \in {"fetch", "loop", "render", "publish", "record", "unlink"}
           /\ fileAtStart = <<>>) => posted_jobs = {}
    /\ (pc = "end" /\ bot_token) => "feed" \in http

\* The identifiers in the store: what load_posted_jobs reads from the file.
Stored == load_posted_jobs(fileExists, file)

\* C15: the set of identifiers in posted_jobs.txt never loses an element: a
\* step leaves the set as it is or adds one identifier to it.
C15_StoreMonotone ==
    [][/\ Stored \subseteq Stored'
       /\ Cardinality(Stored') <= Cardinality(Stored) + 1
      ]_vars

\* C16: every job of today's list has an id that is not empty.
C16_JobIdNonEmpty ==
    \A k \in 1..Len(today_jobs) : today_jobs[k].id # <<>>

\* The text before the first place where one of the words starts.
CutAtFirstKeyword(raw) ==
    IF first_keyword(raw) = 0 THEN raw ELSE SubSeq(raw, 1, first_keyword(raw) - 1)

\* The company as the claim describes it: all of the title after the first
\* separator, cut at the first of the words, trimmed.
CompanyAfterFirstSeparator(title_text) ==
    LET k == Find(title_text, Separator, FALSE)
    IN  IF k = 0 THEN DefaultCompany
        ELSE LET rest  == SubSeq(title_text, k + Len(Separator), Len(title_text))
                 clean == strip(CutAtFirstKeyword(rest))
             IN  IF clean # <<>> THEN clean ELSE DefaultCompany

\* C17: the company is what follows the first " - " of the title, later
\* separators included, cut at the first of the words and trimmed; "Company"
\* when that is empty or the title has no separator.
C17_CompanyExtraction ==
    (probe.fn = "extract_job_metadata" /\ probe.done) =>
        probe.company_name = CompanyAfterFirstSeparator(probe.title)

\* The loop has taken up job idx and has not called post_to_telegram for it:
\* it is rendering or about to publish, or the run died before the temporary
\* file was there.
TakenUp ==
    \/ pc \in {"render", "publish"}
    \/ /\ pc = "end" /\ exit = "exception"
       /\ idx \in 1..Len(today_jobs)
       /\ \A k \in 1..Len(attempts) : attempts[k].job # idx

\* C18: a job the loop took up was preceded by the pacing delay exactly when
\* an earlier publish of the same run had returned success; so the delays of
\* a run are as many as the jobs taken up after its first successful publish.
C18_DelayAfterFirstSuccess ==
    /\ \A k \in 1..Len(attempts) :
          /\ attempts[k].slept \in {0, PACING_SECONDS}
          /\ attempts[k].slept = PACING_SECONDS <=>
                 \E m \in 1..(k - 1) : attempts[m].ok
    /\ TakenUp =>
          /\ slept \in {0, PACING_SECONDS}
          /\ slept = PACING_SECONDS <=> \E m \in 1..Len(attempts) : attempts[m].ok

\* A third attempt waited after a first that succeeded and a second that
\* failed.
C18_Witness ==
    /\ Len(attempts) = 3
    /\ attempts[1].ok
    /\ ~attempts[2].ok
    /\ attempts[2].slept = PACING_SECONDS
    /\ attempts[3].slept = PACING_SECONDS

\* C19: once save_posted_job has written an id, load_posted_jobs reads a set
\* that has that id.
C19_RecordLoadRoundTrip ==
    \A k \in 1..Len(saves) :
        (k < Len(saves) \/ ~(pc = "end" /\ exit = "exception")) =>
            today_jobs[saves[k]].id \in load_posted_jobs(fileExists, file)

\* main() is past load_posted_jobs and not yet over.
InRun == pc \in {"fetch", "loop", "render", "publish", "record", "unlink"}

\* C20: from the return of load_posted_jobs on, posted_jobs is the set read
\* from the file as it was at the start of the run, whatever was appended
\* since; a job the loop has passed was attempted exactly when its id is not
\* in that set.
C20_LoadedSetFrozen ==
    /\ [](InRun => posted_jobs = load_posted_jobs(TRUE, fileAtStart))
    /\ [](\A n \in 1..Len(today_jobs) :
            n < idx =>
                ((\E k \in 1..Len(attempts) : attempts[k].job = n)
                    <=> today_jobs[n].id \notin load_posted_jobs(TRUE, fileAtStart)))
    /\ [][InRun /\ pc' # "startup" => posted_jobs' = posted_jobs]_vars

\* A job is being published whose id an earlier job of this run has already
\* written to the file.
C20_Witness ==
    /\ pc = "publish"
    /\ today_jobs[idx].id \notin posted_jobs
    /\ today_jobs[idx].id \in load_posted_jobs(fileExists, file)
    /\ \E k \in 1..Len(saves) : today_jobs[saves[k]].id = today_jobs[idx].id

====
